---- MODULE Spec2Model ----
(***************************************************************************)
(* peace-lock: a Mutex and an RwLock that never block.  In checked builds  *)
(* (debug_assertions or feature "check") an atomic state flag / word is    *)
(* kept and a contended acquisition returns None or panics; in unchecked   *)
(* builds the state does not exist and every acquisition succeeds.         *)
(*                                                                         *)
(* The model holds one Mutex and one RwLock shared by a set of threads.    *)
(* Every atomic operation of the source (compare_exchange, load,           *)
(* fetch_sub) is one step; the thread-local code around it belongs to the  *)
(* same step.  Spec is the checked build, SpecUnchecked the unchecked one. *)
(* SpecFinite bounds the number of calls and schedules every running       *)
(* thread; SpecValue adds the accesses made through the guards, with the   *)
(* memory orderings of the source deciding which stores a later holder is  *)
(* sure to see; SpecRace is two threads racing for one unlocked cell;      *)
(* SpecLoop records the iterations of lock_shared.                         *)
(***************************************************************************)
EXTENDS Integers, FiniteSets, Sequences, TLC

\* ------------------------------------------------------------------ bounds
NThreads == 2
\* guards one thread may hold at once (all kinds together)
MaxGuards == 2
\* width of the RwLock state word (usize) in bits
WordBits == 6
\* calls issued, by all threads together, in a run with finitely many operations
MaxCalls == 4

\* --------------------------------------------------------------- constants
WRITER_BIT == 8
ONE_READER == 16

Threads == 1..NThreads
\* the payload type T of both cells, and the value both are constructed with
Val == {0, 1}
InitialValue == 1
RECURSIVE Pow2(_)
Pow2(n) == IF n = 0 THEN 1 ELSE 2 * Pow2(n - 1)
\* usize::MAX for the modelled width
USIZE_MAX == Pow2(WordBits) - 1

GuardKinds == {"MutexGuard", "RwLockWriteGuard", "RwLockReadGuard"}

VARIABLES
    checked,    \* cfg(any(debug_assertions, feature = "check")) of the build
    m_state,    \* Mutex.state : AtomicBool
    m_value,    \* Mutex.value
    rw_state,   \* RwLock.state : AtomicUsize
    rw_value,   \* RwLock.value
    held,       \* held[t][k]: number of live guards of kind k owned by thread t
    pc,         \* where thread t is: "idle", "load", "cas", "unwind", "panicked"
    api,        \* the entry point whose lock_shared thread t is in: "read", "try_read", "none"
    local,      \* `state`, the local of lock_shared holding the loaded word
    last,       \* the step just taken: thread, operation, result, value seen
    dirty,      \* dirty[c]: the thread whose stores to the value of cell c no release has published yet; 0: none
    loops,      \* loops[t]: of the lock_shared call t is in, n: iterations begun, c: changes of the word by other threads; n = -1: not recorded
    calls,      \* calls the threads may still issue, all together; -1: no limit
    nshared     \* history: successful lock_shared calls since the word was last 0: "none", "one", "many"

vars == <<checked, m_state, m_value, rw_state, rw_value, held, pc, api, local, last, calls, loops, dirty, nshared>>

\* ----------------------------------------------------- atomics and helpers

\* AtomicBool/AtomicUsize::compare_exchange: the new content and is_ok()
compare_exchange(cur, expected, new) ==
    IF cur = expected THEN [ok |-> TRUE, state |-> new]
                      ELSE [ok |-> FALSE, state |-> cur]

\* state & WRITER_BIT != 0
HasWriterBit(s) == (s \div WRITER_BIT) % 2 = 1

\* usize::wrapping_add
wrapping_add(a, b) == (a + b) % (USIZE_MAX + 1)

\* usize::checked_add: -1 stands for None
checked_add(a, b) == IF a + b > USIZE_MAX THEN -1 ELSE a + b

\* an addition where the subtraction should be
fetch_add(s, d) == (s + d) % (USIZE_MAX + 1)

\* AtomicUsize::fetch_sub wraps around on underflow
fetch_sub(s, d) == (s - d) % (USIZE_MAX + 1)

\* a lock_exclusive that stores true and reports success whatever it found
Mutex_lock_exclusive_store(chk, s) == [ok |-> TRUE, state |-> chk]

Mutex_lock_exclusive(chk, s) ==
    IF chk THEN compare_exchange(s, FALSE, TRUE)
           ELSE [ok |-> TRUE, state |-> s]

\* an unlock_exclusive whose compare_exchange has its arguments swapped
Mutex_unlock_exclusive_swapped(chk, s) ==
    IF chk THEN compare_exchange(s, FALSE, TRUE)
           ELSE [ok |-> TRUE, state |-> s]

Mutex_unlock_exclusive(chk, s) ==
    IF chk THEN compare_exchange(s, TRUE, FALSE)
           ELSE [ok |-> TRUE, state |-> s]

\* a lock_exclusive whose compare_exchange is compiled into unchecked builds too
RwLock_lock_exclusive_always(chk, s) == compare_exchange(s, 0, WRITER_BIT)

\* a lock_exclusive done with fetch_or: a failed attempt leaves the writer bit set
RwLock_lock_exclusive_fetch_or(chk, s) ==
    IF chk THEN [ok |-> s = 0, state |-> IF HasWriterBit(s) THEN s ELSE s + WRITER_BIT]
           ELSE [ok |-> TRUE, state |-> s]

\* a lock_exclusive that tests the writer bit only and so ignores the readers
RwLock_lock_exclusive_bit(chk, s) ==
    IF chk /\ HasWriterBit(s) THEN [ok |-> FALSE, state |-> s]
    ELSE [ok |-> TRUE, state |-> IF chk THEN s + WRITER_BIT ELSE s]

RwLock_lock_exclusive(chk, s) ==
    IF chk THEN compare_exchange(s, 0, WRITER_BIT)
           ELSE [ok |-> TRUE, state |-> s]

\* an unlock_exclusive whose compare_exchange has its arguments swapped
RwLock_unlock_exclusive_swapped(chk, s) ==
    IF chk THEN compare_exchange(s, 0, WRITER_BIT)
           ELSE [ok |-> TRUE, state |-> s]

RwLock_unlock_exclusive(chk, s) ==
    IF chk THEN compare_exchange(s, WRITER_BIT, 0)
           ELSE [ok |-> TRUE, state |-> s]

\* an unlock_shared that subtracts the writer bit instead of one reader
RwLock_unlock_shared_bit(chk, s) == IF chk THEN fetch_sub(s, WRITER_BIT) ELSE s

\* an unlock_shared that clears the word instead of subtracting one reader
RwLock_unlock_shared_clear(chk, s) == IF chk THEN 0 ELSE s

RwLock_unlock_shared(chk, s) ==
    IF chk THEN fetch_sub(s, ONE_READER) ELSE s

\* the orderings of the atomic operations on the flag and the word
\* (compare_exchange: the ordering on success)
Mutex_lock_exclusive_Ordering == "Acquire"
Mutex_unlock_exclusive_Ordering == "Acquire"
RwLock_lock_exclusive_Ordering == "Acquire"
RwLock_unlock_exclusive_Ordering == "Acquire"
RwLock_lock_shared_Ordering == "Acquire"
RwLock_unlock_shared_Ordering == "Release"

\* an operation with this ordering is a release (an acquire) operation
IsRelease(o) == o \in {"Release", "AcqRel", "SeqCst"}
IsAcquire(o) == o \in {"Acquire", "AcqRel", "SeqCst"}

Cells == {"Mutex", "RwLock"}

\* the cell a guard's `lock` field refers to
GuardLock(k) == IF k = "MutexGuard" THEN "Mutex" ELSE "RwLock"

\* *self.lock.value.get()
CellValue(c) == IF c = "Mutex" THEN m_value ELSE rw_value

NoGuards == [k \in GuardKinds |-> 0]
NHeld(t) == held[t]["MutexGuard"] + held[t]["RwLockWriteGuard"] + held[t]["RwLockReadGuard"]
\* live guards of kind k in the guard table h, over all threads
RECURSIVE SumHeld(_, _, _)
SumHeld(h, k, n) == IF n = 0 THEN 0 ELSE h[n][k] + SumHeld(h, k, n - 1)
LiveIn(h, k) == SumHeld(h, k, NThreads)
NoneLiveIn(h, k) == \A t \in Threads : h[t][k] = 0
Live(k) == LiveIn(held, k)

\* g: the guard kind a deref went through ("none" otherwise)
Ev(t, op, res, val) == [t |-> t, op |-> op, res |-> res, val |-> val, g |-> "none"]

\* a thread that may start a new call which can return one more guard
CanCall(t) == pc[t] = "idle" /\ NHeld(t) < MaxGuards /\ calls # 0

\* one call issued by thread t
Spend(t) == calls' = IF calls = -1 THEN calls ELSE calls - 1

Unlimited == -1

LoopsOff == [t \in Threads |-> [n |-> -1, c |-> 0]]

\* thread t took a step: a load of lock_shared begins an iteration of t's
\* call, a return ends the call; a change of the word is counted for every
\* other thread that is inside lock_shared
Track(t) ==
    loops' =
        IF loops = LoopsOff THEN loops
        ELSE [u \in Threads |->
                IF u = t
                   THEN IF pc'[t] \notin {"load", "cas"} THEN [n |-> 0, c |-> 0]
                        ELSE IF pc[t] = "cas" THEN loops[t]
                        ELSE [loops[t] EXCEPT !.n = @ + 1]
                   ELSE IF pc[u] \in {"load", "cas"} /\ rw_state' # rw_state
                           THEN [loops[u] EXCEPT !.c = @ + 1]
                           ELSE loops[u]]

\* the ordering with which a guard of kind k is acquired, and released
AcquireOrdering(k) ==
    IF k = "MutexGuard" THEN Mutex_lock_exclusive_Ordering
    ELSE IF k = "RwLockWriteGuard" THEN RwLock_lock_exclusive_Ordering
    ELSE RwLock_lock_shared_Ordering
ReleaseOrdering(k) ==
    IF k = "MutexGuard" THEN Mutex_unlock_exclusive_Ordering
    ELSE IF k = "RwLockWriteGuard" THEN RwLock_unlock_exclusive_Ordering
    ELSE RwLock_unlock_shared_Ordering

\* thread t releases a guard of kind k: a release operation publishes the
\* stores t made before it to the threads that acquire afterwards; any other
\* ordering publishes nothing
Publish(t, k) ==
    dirty' = IF checked /\ IsRelease(ReleaseOrdering(k))
                THEN [c \in Cells |-> IF dirty[c] = t THEN 0 ELSE dirty[c]]
                ELSE dirty

\* a checked build: thread t accesses the value through a guard of kind k
\* while a store of another thread to that value is unpublished, or without
\* having acquired: no happens-before orders the two accesses, a data race
Unordered(t, k) ==
    /\ checked
    /\ \/ dirty[GuardLock(k)] \notin {0, t}
       \/ ~IsAcquire(AcquireOrdering(k))

Give(t, k) == held' = [held EXCEPT ![t][k] = @ + 1]
Take(t, k) == held' = [held EXCEPT ![t][k] = @ - 1]

\* ------------------------------------------------------------------- Init
Init ==
    /\ checked \in BOOLEAN
    /\ m_state = FALSE
    /\ m_value = InitialValue
    /\ rw_state = 0
    /\ rw_value = InitialValue
    /\ held = [t \in Threads |-> NoGuards]
    /\ pc = [t \in Threads |-> "idle"]
    /\ api = [t \in Threads |-> "none"]
    /\ local = [t \in Threads |-> 0]
    /\ last = Ev(0, "new", "ok", 0)
    /\ nshared = "none"
    /\ calls \in {Unlimited} \cup (0 .. MaxCalls)
    /\ dirty = [c \in Cells |-> 0]
    /\ loops \in {LoopsOff, [t \in Threads |-> [n |-> 0, c |-> 0]]}

\* ------------------------------------------------------------------ Mutex

\* a try_lock that drops the `.then`: a guard whatever lock_exclusive returned
try_lock_unconditional(t) ==
    /\ CanCall(t)
    /\ m_state' = Mutex_lock_exclusive(checked, m_state).state
    /\ Give(t, "MutexGuard")
    /\ last' = Ev(t, "try_lock", "guard", 0)
    /\ UNCHANGED <<checked, m_value, rw_state, rw_value, pc, api, local, nshared>>
    /\ Spend(t)
    /\ Track(t)
    /\ UNCHANGED dirty

\* Mutex::try_lock: lock_exclusive().then(|| MutexGuard { lock: self })
try_lock(t) ==
    /\ CanCall(t)
    /\ LET r == Mutex_lock_exclusive(checked, m_state) IN
        /\ m_state' = r.state
        /\ IF r.ok
              THEN Give(t, "MutexGuard") /\ last' = Ev(t, "try_lock", "guard", 0)
              ELSE UNCHANGED held /\ last' = Ev(t, "try_lock", "None", 0)
    /\ UNCHANGED <<checked, m_value, rw_state, rw_value, pc, api, local, nshared>>
    /\ Spend(t)
    /\ Track(t)
    /\ UNCHANGED dirty

\* a lock() whose panic is compiled out of the checked build as well
lock_no_panic(t) ==
    /\ CanCall(t)
    /\ m_state' = Mutex_lock_exclusive(checked, m_state).state
    /\ Give(t, "MutexGuard")
    /\ last' = Ev(t, "lock", "guard", 0)
    /\ UNCHANGED <<checked, m_value, rw_state, rw_value, pc, api, local, nshared>>
    /\ Spend(t)
    /\ Track(t)
    /\ UNCHANGED dirty

\* Mutex::lock: panics in a checked build when lock_exclusive() is false
lock(t) ==
    /\ CanCall(t)
    /\ LET r == Mutex_lock_exclusive(checked, m_state) IN
        /\ m_state' = r.state
        /\ IF r.ok \/ ~checked
              THEN /\ Give(t, "MutexGuard")
                   /\ last' = Ev(t, "lock", "guard", 0)
                   /\ UNCHANGED pc
              ELSE /\ UNCHANGED held
                   /\ last' = Ev(t, "lock", "panic_locked", 0)
                   /\ pc' = [pc EXCEPT ![t] = "unwind"]
    /\ UNCHANGED <<checked, m_value, rw_state, rw_value, api, local, nshared>>
    /\ Spend(t)
    /\ Track(t)
    /\ UNCHANGED dirty

\* a drop that runs the release and leaves the guard to be dropped again
MutexGuard_drop_again(t) ==
    /\ pc[t] \in {"idle", "unwind"}
    /\ held[t]["MutexGuard"] > 0
    /\ LET r == Mutex_unlock_exclusive(checked, m_state) IN
        /\ m_state' = r.state
        /\ last' = Ev(t, "MutexGuard_drop", IF r.ok THEN "ok" ELSE "cas_failed", 0)
    /\ UNCHANGED <<checked, m_value, rw_state, rw_value, held, pc, api, local, nshared, calls>>
    /\ Track(t)
    /\ Publish(t, "MutexGuard")

\* Drop for MutexGuard: self.lock.unlock_exclusive(), the result ignored
MutexGuard_drop(t) ==
    /\ pc[t] \in {"idle", "unwind"}
    /\ held[t]["MutexGuard"] > 0
    /\ LET r == Mutex_unlock_exclusive(checked, m_state) IN
        /\ m_state' = r.state
        /\ last' = Ev(t, "MutexGuard_drop", IF r.ok THEN "ok" ELSE "cas_failed", 0)
    /\ Take(t, "MutexGuard")
    /\ UNCHANGED <<checked, m_value, rw_state, rw_value, pc, api, local, nshared, calls>>
    /\ Track(t)
    /\ Publish(t, "MutexGuard")

MutexNext == \E t \in Threads : try_lock(t) \/ lock(t) \/ MutexGuard_drop(t)

\* ----------------------------------------------------------------- RwLock

\* RwLock::try_write: lock_exclusive().then(|| RwLockWriteGuard { lock: self })
try_write(t) ==
    /\ CanCall(t)
    /\ LET r == RwLock_lock_exclusive(checked, rw_state) IN
        /\ rw_state' = r.state
        /\ nshared' = IF r.ok THEN "none" ELSE nshared
        /\ IF r.ok
              THEN Give(t, "RwLockWriteGuard") /\ last' = Ev(t, "try_write", "guard", 0)
              ELSE UNCHANGED held /\ last' = Ev(t, "try_write", "None", 0)
    /\ UNCHANGED <<checked, m_state, m_value, rw_value, pc, api, local>>
    /\ Spend(t)
    /\ Track(t)
    /\ UNCHANGED dirty

\* RwLock::write: panics in a checked build when lock_exclusive() is false
write(t) ==
    /\ CanCall(t)
    /\ LET r == RwLock_lock_exclusive(checked, rw_state) IN
        /\ rw_state' = r.state
        /\ nshared' = IF r.ok THEN "none" ELSE nshared
        /\ IF r.ok \/ ~checked
              THEN /\ Give(t, "RwLockWriteGuard")
                   /\ last' = Ev(t, "write", "guard", 0)
                   /\ UNCHANGED pc
              ELSE /\ UNCHANGED held
                   /\ last' = Ev(t, "write", "panic_locked", 0)
                   /\ pc' = [pc EXCEPT ![t] = "unwind"]
    /\ UNCHANGED <<checked, m_state, m_value, rw_value, api, local>>
    /\ Spend(t)
    /\ Track(t)
    /\ UNCHANGED dirty

\* Drop for RwLockWriteGuard: self.lock.unlock_exclusive(), the result ignored
RwLockWriteGuard_drop(t) ==
    /\ pc[t] \in {"idle", "unwind"}
    /\ held[t]["RwLockWriteGuard"] > 0
    /\ LET r == RwLock_unlock_exclusive(checked, rw_state) IN
        /\ rw_state' = r.state
        /\ last' = Ev(t, "RwLockWriteGuard_drop", IF r.ok THEN "ok" ELSE "cas_failed", 0)
    /\ Take(t, "RwLockWriteGuard")
    /\ UNCHANGED <<checked, m_state, m_value, rw_value, pc, api, local, nshared, calls>>
    /\ Track(t)
    /\ Publish(t, "RwLockWriteGuard")

\* lock_shared returned `r` (TRUE/FALSE) to entry point `a` of thread t:
\* try_read maps false to None, read panics on it in a checked build
SharedReturn(t, a, r) ==
    /\ api' = [api EXCEPT ![t] = "none"]
    /\ local' = [local EXCEPT ![t] = 0]
    /\ IF r
          THEN /\ Give(t, "RwLockReadGuard")
               /\ last' = Ev(t, a, "guard", 0)
               /\ pc' = [pc EXCEPT ![t] = "idle"]
               /\ nshared' = IF ~checked THEN nshared
                             ELSE IF rw_state = 0 THEN "one" ELSE "many"
          ELSE /\ UNCHANGED <<held, nshared>>
               /\ IF a = "try_read"
                     THEN /\ last' = Ev(t, a, "None", 0)
                          /\ pc' = [pc EXCEPT ![t] = "idle"]
                     ELSE /\ last' = Ev(t, a, "panic_locked", 0)
                          /\ pc' = [pc EXCEPT ![t] = "unwind"]

\* a lock_shared that waits at the load for the writer to go away
SharedLoad_wait(t, a) ==
    /\ UNCHANGED <<checked, m_state, m_value, rw_state, rw_value>>
    /\ IF HasWriterBit(rw_state)
          THEN /\ pc' = [pc EXCEPT ![t] = "load"]
               /\ api' = [api EXCEPT ![t] = a]
               /\ last' = Ev(t, a, "retry", 0)
               /\ UNCHANGED <<held, local, nshared>>
          ELSE /\ pc' = [pc EXCEPT ![t] = "cas"]
               /\ api' = [api EXCEPT ![t] = a]
               /\ local' = [local EXCEPT ![t] = rw_state]
               /\ last' = Ev(t, a, "loaded", 0)
               /\ UNCHANGED <<held, nshared>>

\* lock_shared, top of the loop: load the word; return false when the writer
\* bit is set, else go on to the compare_exchange with the loaded word
SharedLoad(t, a) ==
    /\ UNCHANGED <<checked, m_state, m_value, rw_state, rw_value>>
    /\ IF HasWriterBit(rw_state)
          THEN SharedReturn(t, a, FALSE)
          ELSE /\ pc' = [pc EXCEPT ![t] = "cas"]
               /\ api' = [api EXCEPT ![t] = a]
               /\ local' = [local EXCEPT ![t] = rw_state]
               /\ last' = Ev(t, a, "loaded", 0)
               /\ UNCHANGED <<held, nshared>>

\* an unchecked build has no loop: lock_shared is `true`
SharedUnchecked(t, a) ==
    /\ UNCHANGED <<checked, m_state, m_value, rw_state, rw_value>>
    /\ SharedReturn(t, a, TRUE)

\* RwLock::try_read, up to and including the first load of lock_shared
try_read(t) ==
    /\ CanCall(t)
    /\ Spend(t)
    /\ IF checked THEN SharedLoad(t, "try_read") ELSE SharedUnchecked(t, "try_read")
    /\ Track(t)
    /\ UNCHANGED dirty

\* RwLock::read, up to and including the first load of lock_shared
read(t) ==
    /\ CanCall(t)
    /\ Spend(t)
    /\ IF checked THEN SharedLoad(t, "read") ELSE SharedUnchecked(t, "read")
    /\ Track(t)
    /\ UNCHANGED dirty

\* lock_shared: a later iteration's load, after a failed compare_exchange
lock_shared_load(t) ==
    /\ pc[t] = "load"
    /\ UNCHANGED calls
    /\ SharedLoad(t, api[t])
    /\ Track(t)
    /\ UNCHANGED dirty

\* a lock_shared that gives up (returns false) when its compare_exchange fails
lock_shared_cas_once(t) ==
    /\ pc[t] = "cas"
    /\ UNCHANGED <<checked, m_state, m_value, rw_value, calls>>
    /\ LET sum == checked_add(local[t], ONE_READER) IN
       IF sum = -1
          THEN /\ last' = Ev(t, api[t], "panic_too_many_readers", 0)
               /\ pc' = [pc EXCEPT ![t] = "unwind"]
               /\ api' = [api EXCEPT ![t] = "none"]
               /\ local' = [local EXCEPT ![t] = 0]
               /\ UNCHANGED <<rw_state, held, nshared>>
          ELSE LET r == compare_exchange(rw_state, local[t], sum) IN
               /\ rw_state' = r.state
               /\ SharedReturn(t, api[t], r.ok)
    /\ Track(t)
    /\ UNCHANGED dirty

\* a lock_shared that adds its reader with a fetch_add, comparing nothing
lock_shared_cas_blind(t) ==
    /\ pc[t] = "cas"
    /\ UNCHANGED <<checked, m_state, m_value, rw_value, calls>>
    /\ rw_state' = (rw_state + ONE_READER) % (USIZE_MAX + 1)
    /\ SharedReturn(t, api[t], TRUE)
    /\ Track(t)
    /\ UNCHANGED dirty

\* a lock_shared whose compare_exchange stores the loaded word back, with no
\* reader added
lock_shared_cas_no_add(t) ==
    /\ pc[t] = "cas"
    /\ UNCHANGED <<checked, m_state, m_value, rw_value, calls>>
    /\ LET sum == checked_add(local[t], ONE_READER) IN
       IF sum = -1
          THEN /\ last' = Ev(t, api[t], "panic_too_many_readers", 0)
               /\ pc' = [pc EXCEPT ![t] = "unwind"]
               /\ api' = [api EXCEPT ![t] = "none"]
               /\ local' = [local EXCEPT ![t] = 0]
               /\ UNCHANGED <<rw_state, held, nshared>>
          ELSE LET r == compare_exchange(rw_state, local[t], local[t]) IN
               /\ rw_state' = r.state
               /\ IF r.ok
                     THEN SharedReturn(t, api[t], TRUE)
                     ELSE /\ pc' = [pc EXCEPT ![t] = "load"]
                          /\ local' = [local EXCEPT ![t] = 0]
                          /\ last' = Ev(t, api[t], "retry", 0)
                          /\ UNCHANGED <<held, api, nshared>>
    /\ Track(t)
    /\ UNCHANGED dirty

\* a lock_shared built on compare_exchange_weak, which may fail though the
\* word is the expected one
lock_shared_cas_weak(t) ==
    /\ pc[t] = "cas"
    /\ UNCHANGED <<checked, m_state, m_value, rw_value, calls>>
    /\ LET sum == checked_add(local[t], ONE_READER) IN
       IF sum = -1
          THEN /\ last' = Ev(t, api[t], "panic_too_many_readers", 0)
               /\ pc' = [pc EXCEPT ![t] = "unwind"]
               /\ api' = [api EXCEPT ![t] = "none"]
               /\ local' = [local EXCEPT ![t] = 0]
               /\ UNCHANGED <<rw_state, held, nshared>>
          ELSE \E spurious \in BOOLEAN :
               LET r == IF spurious THEN [ok |-> FALSE, state |-> rw_state]
                        ELSE compare_exchange(rw_state, local[t], sum) IN
               /\ rw_state' = r.state
               /\ IF r.ok
                     THEN SharedReturn(t, api[t], TRUE)
                     ELSE /\ pc' = [pc EXCEPT ![t] = "load"]
                          /\ local' = [local EXCEPT ![t] = 0]
                          /\ last' = Ev(t, api[t], "retry", 0)
                          /\ UNCHANGED <<held, api, nshared>>
    /\ Track(t)
    /\ UNCHANGED dirty

\* lock_shared: state.checked_add(ONE_READER).expect("too many readers"),
\* then the compare_exchange from the loaded word; `break` on success,
\* the next iteration on failure
lock_shared_cas(t) ==
    /\ pc[t] = "cas"
    /\ UNCHANGED <<checked, m_state, m_value, rw_value, calls>>
    /\ LET sum == checked_add(local[t], ONE_READER) IN
       IF sum = -1
          THEN /\ last' = Ev(t, api[t], "panic_too_many_readers", 0)
               /\ pc' = [pc EXCEPT ![t] = "unwind"]
               /\ api' = [api EXCEPT ![t] = "none"]
               /\ local' = [local EXCEPT ![t] = 0]
               /\ UNCHANGED <<rw_state, held, nshared>>
          ELSE LET r == compare_exchange(rw_state, local[t], sum) IN
               /\ rw_state' = r.state
               /\ IF r.ok
                     THEN SharedReturn(t, api[t], TRUE)
                     ELSE /\ pc' = [pc EXCEPT ![t] = "load"]
                          /\ local' = [local EXCEPT ![t] = 0]
                          /\ last' = Ev(t, api[t], "retry", 0)
                          /\ UNCHANGED <<held, api, nshared>>
    /\ Track(t)
    /\ UNCHANGED dirty

\* Drop for RwLockReadGuard: self.lock.unlock_shared()
RwLockReadGuard_drop(t) ==
    /\ pc[t] \in {"idle", "unwind"}
    /\ held[t]["RwLockReadGuard"] > 0
    /\ rw_state' = RwLock_unlock_shared(checked, rw_state)
    /\ last' = Ev(t, "RwLockReadGuard_drop", "ok", 0)
    /\ Take(t, "RwLockReadGuard")
    /\ UNCHANGED <<checked, m_state, m_value, rw_value, pc, api, local, nshared, calls>>
    /\ Track(t)
    /\ Publish(t, "RwLockReadGuard")

RwLockNext ==
    \E t \in Threads :
        \/ try_write(t) \/ write(t) \/ RwLockWriteGuard_drop(t)
        \/ try_read(t) \/ read(t) \/ lock_shared_load(t) \/ lock_shared_cas(t)
        \/ RwLockReadGuard_drop(t)

\* ----------------------------------------------------- guards and panics

WriteCapable(k) == k \in {"MutexGuard", "RwLockWriteGuard"}

\* in an unchecked build nothing orders the accesses of two threads that
\* hold guards of one cell: a load that may overlap another thread's store
\* is a data race, and may see anything
Racy(t, k) ==
    \E u \in Threads \ {t} : \E j \in GuardKinds :
        /\ held[u][j] > 0
        /\ GuardLock(j) = GuardLock(k)
        /\ WriteCapable(j)

\* what a guard of kind k dereferences to: &*self.lock.value.get()
Deref(k) == CellValue(GuardLock(k))

\* Deref::deref of a guard of kind k, and a load through the reference
deref(t, k) ==
    /\ pc[t] = "idle"
    /\ held[t][k] > 0
    /\ \E v \in Val :
        /\ Racy(t, k) \/ Unordered(t, k) \/ v = Deref(k)
        /\ last' = [Ev(t, "deref", GuardLock(k), v) EXCEPT !.g = k]
    /\ UNCHANGED <<checked, m_state, m_value, rw_state, rw_value, held, pc, api, local, nshared, calls>>
    /\ Track(t)
    /\ UNCHANGED dirty

\* DerefMut::deref_mut of a guard of kind k, and a store of v through it
deref_mut(t, k, v) ==
    /\ pc[t] = "idle"
    /\ WriteCapable(k)
    /\ held[t][k] > 0
    /\ \E w \in Val :
        /\ Unordered(t, k) \/ w = v
        /\ IF GuardLock(k) = "Mutex"
              THEN m_value' = w /\ UNCHANGED rw_value
              ELSE rw_value' = w /\ UNCHANGED m_value
    /\ last' = [Ev(t, "deref_mut", GuardLock(k), 0) EXCEPT !.g = k]
    /\ UNCHANGED <<checked, m_state, rw_state, held, pc, api, local, nshared, calls>>
    /\ Track(t)
    /\ dirty' = IF checked THEN [dirty EXCEPT ![GuardLock(k)] = t] ELSE dirty

\* the end of unwinding: every guard of the panicking thread was dropped
unwind_done(t) ==
    /\ pc[t] = "unwind"
    /\ NHeld(t) = 0
    /\ pc' = [pc EXCEPT ![t] = "panicked"]
    /\ last' = Ev(t, "unwind_done", "ok", 0)
    /\ UNCHANGED <<checked, m_state, m_value, rw_state, rw_value, held, api, local, nshared, calls>>
    /\ Track(t)
    /\ UNCHANGED dirty

UnwindNext == \E t \in Threads : unwind_done(t)

GuardNext ==
    \E t \in Threads :
        \/ \E k \in GuardKinds : deref(t, k)
        \/ \E k \in GuardKinds, v \in Val : deref_mut(t, k, v)

\* the state machine of both locks: acquisitions, releases, unwinding
Next == MutexNext \/ RwLockNext \/ UnwindNext

\* a checked build: debug_assertions or feature "check"
InitChecked == Init /\ checked /\ calls = Unlimited /\ loops = LoopsOff

Spec == InitChecked /\ [][Next]_vars

\* the state machine together with the accesses made through the guards
NextValue == Next \/ GuardNext


\* an unchecked build: no state field, no loop in lock_shared, no panic;
\* the stores made through the guards change the protected values
InitUnchecked == Init /\ ~checked /\ calls = Unlimited /\ loops = LoopsOff

NextUnchecked ==
    \/ \E t \in Threads :
          \/ try_lock(t) \/ lock(t) \/ MutexGuard_drop(t)
          \/ try_write(t) \/ write(t) \/ RwLockWriteGuard_drop(t)
          \/ try_read(t) \/ read(t) \/ RwLockReadGuard_drop(t)
    \/ \E t \in Threads : \E k \in GuardKinds, v \in Val : deref_mut(t, k, v)

SpecUnchecked == InitUnchecked /\ [][NextUnchecked]_vars

\* finitely many threads issuing at most MaxCalls calls
InitFinite == Init /\ checked /\ calls = MaxCalls /\ loops = LoopsOff

\* the steps a thread takes without a decision of its caller: the rest of a
\* lock_shared call it is in, and the drops of its guards while it unwinds
Running(t) ==
    \/ lock_shared_load(t)
    \/ lock_shared_cas(t)
    \/ pc[t] = "unwind" /\ MutexGuard_drop(t)
    \/ pc[t] = "unwind" /\ RwLockWriteGuard_drop(t)
    \/ pc[t] = "unwind" /\ RwLockReadGuard_drop(t)
    \/ unwind_done(t)

\* a scheduler that lets every running thread take its next step
SpecFinite == InitFinite /\ [][Next]_vars /\ \A t \in Threads : WF_vars(Running(t))

\* finitely many calls, and the accesses made through the guards they return
SpecValue == InitFinite /\ [][NextValue]_vars

\* two acquisitions race on one unlocked cell
Racers == 2

InitRace == Init /\ checked /\ calls = Racers /\ loops = LoopsOff

\* the cell the race is on, once the first racer has begun
RaceCell ==
    IF Live("MutexGuard") > 0 THEN "Mutex"
    ELSE IF \/ Live("RwLockWriteGuard") > 0
            \/ Live("RwLockReadGuard") > 0
            \/ \E t \in Threads : pc[t] \in {"load", "cas"} THEN "RwLock"
    ELSE "none"

\* no racer has asked for shared access yet
NoReaderYet ==
    /\ Live("RwLockReadGuard") = 0
    /\ \A t \in Threads : pc[t] \notin {"load", "cas"}

\* racer t makes its one call, on the cell of the race; no guard is dropped,
\* the winner uses its guard while the loser is still in its call.
\* The pairs are those of conflict: two exclusive calls, or an exclusive and
\* a shared one.
race_exclusive_mutex(t) ==
    /\ NHeld(t) = 0
    /\ RaceCell # "RwLock"
    /\ try_lock(t) \/ lock(t)

race_exclusive_rwlock(t) ==
    /\ NHeld(t) = 0
    /\ RaceCell # "Mutex"
    /\ try_write(t) \/ write(t)

race_shared(t) ==
    /\ NHeld(t) = 0
    /\ RaceCell # "Mutex"
    /\ NoReaderYet
    /\ try_read(t) \/ read(t)

NextRace ==
    \E t \in Threads :
        \/ race_exclusive_mutex(t)
        \/ race_exclusive_rwlock(t)
        \/ race_shared(t)
        \/ lock_shared_load(t)
        \/ lock_shared_cas(t)
        \/ unwind_done(t)
        \/ \E k \in GuardKinds : deref(t, k)
        \/ \E k \in GuardKinds, v \in Val : deref_mut(t, k, v)

SpecRace == InitRace /\ [][NextRace]_vars

\* a checked build in which the iterations of lock_shared are recorded
InitLoop ==
    /\ Init /\ checked /\ calls = MaxCalls
    /\ loops = [t \in Threads |-> [n |-> 0, c |-> 0]]

SpecLoop == InitLoop /\ [][Next]_vars

\* ============================================================ properties

FailedResults == {"None", "panic_locked", "panic_too_many_readers"}

\* C1: Mutex, checked build: in every reachable state at most one MutexGuard
\* of the Mutex is live, and the flag is set exactly when one is.
C1_AtMostOneMutexGuard ==
    checked => /\ Live("MutexGuard") <= 1
               /\ m_state = (Live("MutexGuard") = 1)

\* a second lock()/try_lock() was attempted while a MutexGuard is live
C1_Witness ==
    /\ checked
    /\ Live("MutexGuard") = 1
    /\ last.op \in {"lock", "try_lock"}
    /\ last.res \in FailedResults

\* C2: Mutex, checked build: while a MutexGuard is live every try_lock()
\* returns None and every lock() panics, whoever calls: another thread or
\* the thread holding the guard.
C2_HeldMutexRefuses ==
    [][ (checked /\ Live("MutexGuard") > 0) =>
            /\ last'.op = "try_lock" => last'.res = "None"
            /\ last'.op = "lock" =>
                  last'.res = "panic_locked" /\ pc'[last'.t] = "unwind"
      ]_vars

\* the holder itself called lock() again and panicked
C2_Witness ==
    /\ checked
    /\ last.op = "lock"
    /\ last.res = "panic_locked"
    /\ held[last.t]["MutexGuard"] = 1

ExclusiveOps == {"write", "try_write"}
SharedOps == {"read", "try_read"}
\* the thread taking the step is at a call site, not inside lock_shared
FreshCall == pc[last'.t] = "idle"

\* C3: RwLock, checked build: a live RwLockWriteGuard never coexists with
\* another guard of the RwLock (write or read); write/try_write fail while a
\* read guard is live, read/try_read fail while a write guard is live.
C3_WriterExcludesAll ==
    [][ checked =>
            /\ LiveIn(held', "RwLockWriteGuard") > 0 =>
                  /\ LiveIn(held', "RwLockWriteGuard") = 1
                  /\ LiveIn(held', "RwLockReadGuard") = 0
            /\ (Live("RwLockReadGuard") > 0 /\ last'.op \in ExclusiveOps) =>
                  /\ last'.res = (IF last'.op = "write" THEN "panic_locked" ELSE "None")
                  /\ held' = held
            /\ (Live("RwLockWriteGuard") > 0 /\ last'.op \in SharedOps) =>
                  /\ last'.res \notin {"guard", "loaded"}
                  /\ held' = held
                  /\ FreshCall =>
                        last'.res = (IF last'.op = "read" THEN "panic_locked" ELSE "None")
      ]_vars

\* write() panicked on a RwLock that has a live read guard
C3_Witness ==
    /\ checked
    /\ Live("RwLockReadGuard") > 0
    /\ last.op = "write"
    /\ last.res = "panic_locked"

\* C4: RwLock, checked build: while no write guard is live, no step of a
\* read()/try_read() fails as long as the loaded word has room for one more
\* reader; the word counts every live read guard, so the guards coexist; and
\* the drop of a read guard takes exactly one reader off the word.
C4_ReadersCoexist ==
    [][ (checked /\ Live("RwLockWriteGuard") = 0) =>
            /\ last'.op \in SharedOps =>
                  /\ last'.res \in {"loaded", "retry", "guard", "panic_too_many_readers"}
                  /\ last'.res = "panic_too_many_readers" =>
                        local[last'.t] + ONE_READER > USIZE_MAX
                  /\ last'.res = "guard" =>
                        /\ rw_state' = rw_state + ONE_READER
                        /\ LiveIn(held', "RwLockReadGuard") = Live("RwLockReadGuard") + 1
            /\ last'.op = "RwLockReadGuard_drop" =>
                  /\ rw_state' = rw_state - ONE_READER
                  /\ LiveIn(held', "RwLockReadGuard") = Live("RwLockReadGuard") - 1
            /\ LiveIn(held', "RwLockWriteGuard") = 0 =>
                  rw_state' = ONE_READER * LiveIn(held', "RwLockReadGuard")
      ]_vars

\* two threads held read guards together and one guard was dropped: the
\* other is still live and counted
C4_Witness ==
    /\ checked
    /\ last.op = "RwLockReadGuard_drop"
    /\ \E t \in Threads \ {last.t} : held[t]["RwLockReadGuard"] > 0
    /\ rw_state = ONE_READER * Live("RwLockReadGuard")
    /\ rw_state > 0

NoRwGuardsIn(h) == NoneLiveIn(h, "RwLockWriteGuard") /\ NoneLiveIn(h, "RwLockReadGuard")

\* C6: RwLock, checked build: whenever every read guard acquired on the
\* unlocked RwLock has been dropped again (no guard is live), the word is 0,
\* whatever the number of acquisitions and their interleaving, and a
\* try_write made then returns a guard.
C6_SharedReleaseRestoresZero ==
    [][ checked =>
            /\ NoRwGuardsIn(held') => rw_state' = 0
            /\ (NoRwGuardsIn(held) /\ last'.op = "try_write") =>
                  last'.res = "guard" /\ rw_state' = WRITER_BIT
      ]_vars

\* several read guards were acquired since the word was 0 (the later ones
\* while an earlier one was live), and the last of them was just dropped
C6_Witness ==
    /\ checked
    /\ nshared = "many"
    /\ last.op = "RwLockReadGuard_drop"
    /\ NoRwGuardsIn(held)
    /\ rw_state = 0

AcquireOps == {"lock", "try_lock", "write", "try_write", "read", "try_read"}
\* the guard an entry point returns
OpGuard(op) ==
    IF op \in {"lock", "try_lock"} THEN "MutexGuard"
    ELSE IF op \in ExclusiveOps THEN "RwLockWriteGuard" ELSE "RwLockReadGuard"

\* C7: unchecked build: every lock, try_lock, write, try_write, read and
\* try_read returns a guard in one step, whatever guards are live (never None,
\* never a panic), and the guard dereferences to the value of the cell it
\* was asked of.
C7_UncheckedAlwaysAcquires ==
    [][ (~checked /\ last'.op \in AcquireOps) =>
            /\ last'.res = "guard"
            /\ pc'[last'.t] = "idle"
            /\ held'[last'.t][OpGuard(last'.op)] = held[last'.t][OpGuard(last'.op)] + 1
            /\ \A k \in GuardKinds :
                  k = OpGuard(last'.op) =>
                    Deref(k)' = (IF last'.op \in {"lock", "try_lock"} THEN m_value' ELSE rw_value')
      ]_vars

\* try_write returned a guard while another write guard and a read guard of
\* the RwLock are live; the two cells hold different values
C7_Witness ==
    /\ ~checked
    /\ last.op = "try_write"
    /\ last.res = "guard"
    /\ Live("RwLockWriteGuard") >= 2
    /\ Live("RwLockReadGuard") >= 1
    /\ m_value # rw_value

\* C8: RwLock, checked build, w-bit word: when the loaded word plus
\* ONE_READER exceeds the capacity of the word, read() and try_read() alike
\* panic with "too many readers" and leave the word and the guards as they
\* were; a successful shared acquisition adds exactly ONE_READER without
\* wrapping, and the reader field always equals the number of live read guards.
C8_ReaderOverflowIsFatal ==
    [][ checked =>
            /\ (last'.op \in SharedOps /\ pc[last'.t] = "cas"
                    /\ local[last'.t] + ONE_READER > USIZE_MAX) =>
                  /\ last'.res = "panic_too_many_readers"
                  /\ pc'[last'.t] = "unwind"
                  /\ rw_state' = rw_state
                  /\ held' = held
            /\ (last'.op \in SharedOps /\ last'.res = "guard") =>
                  rw_state' = rw_state + ONE_READER /\ rw_state' <= USIZE_MAX
            /\ rw_state' \div ONE_READER = LiveIn(held', "RwLockReadGuard")
      ]_vars

\* try_read panicked on a word that is full of readers
C8_Witness ==
    /\ checked
    /\ last.op = "try_read"
    /\ last.res = "panic_too_many_readers"
    /\ rw_state + ONE_READER > USIZE_MAX
    /\ rw_state = ONE_READER * Live("RwLockReadGuard")

\* C9: RwLock, checked build: a step of lock_shared returns false (try_read
\* gives None, read panics) exactly when it is a load that sees the writer
\* bit, and the call is then over; a compare_exchange that fails because the
\* word changed returns nothing: the thread goes back to the load.
C9_SharedFailsOnlyOnWriterBit ==
    [][ (checked /\ last'.op \in SharedOps) =>
            /\ (last'.res \in {"None", "panic_locked"}) <=>
                  (pc[last'.t] \in {"idle", "load"} /\ HasWriterBit(rw_state))
            /\ last'.res \in {"None", "panic_locked"} =>
                  /\ last'.res = (IF last'.op = "read" THEN "panic_locked" ELSE "None")
                  /\ pc'[last'.t] = (IF last'.op = "read" THEN "unwind" ELSE "idle")
                  /\ api'[last'.t] = "none"
            /\ (pc[last'.t] = "cas" /\ rw_state # local[last'.t]
                    /\ checked_add(local[last'.t], ONE_READER) # -1) =>
                  /\ last'.res = "retry"
                  /\ pc'[last'.t] = "load"
                  /\ api'[last'.t] = api[last'.t]
                  /\ rw_state' = rw_state
            /\ pc[last'.t] = "load" => last'.res \in {"loaded", "None", "panic_locked"}
      ]_vars

\* a compare_exchange failed because a writer took the lock after the load:
\* the reader is back at the load, not failed
C9_Witness ==
    /\ checked
    /\ last.res = "retry"
    /\ pc[last.t] = "load"
    /\ HasWriterBit(rw_state)

\* C10: checked build, both locks: a failed acquisition (None or a panic)
\* leaves flag, word and guards exactly as they were; with no guard of a cell
\* live the cell is unlocked, and an acquisition made then succeeds.
C10_FailureDoesNotPoison ==
    [][ checked =>
            /\ last'.res \in FailedResults =>
                  m_state' = m_state /\ rw_state' = rw_state /\ held' = held
            /\ NoneLiveIn(held', "MutexGuard") => m_state' = FALSE
            /\ NoRwGuardsIn(held') => rw_state' = 0
            /\ (NoneLiveIn(held, "MutexGuard") /\ last'.op \in {"lock", "try_lock"}) =>
                  last'.res = "guard"
            /\ (NoRwGuardsIn(held) /\ last'.op \in ExclusiveOps) => last'.res = "guard"
            /\ (NoRwGuardsIn(held) /\ FreshCall /\ last'.op \in SharedOps) =>
                  last'.res = "loaded"
      ]_vars

\* a thread panicked in an acquisition and finished unwinding; no guard is
\* left, and another thread's write() then returned a guard
C10_Witness ==
    /\ checked
    /\ \E t \in Threads \ {last.t} : pc[t] = "panicked"
    /\ last.op = "write"
    /\ last.res = "guard"
    /\ Live("RwLockWriteGuard") = 1

\* flag and word as the live guards of all threads determine them
StateMatchesGuards ==
    /\ m_state = (Live("MutexGuard") = 1)
    /\ Live("MutexGuard") <= 1
    /\ rw_state = WRITER_BIT * Live("RwLockWriteGuard")
                     + ONE_READER * Live("RwLockReadGuard")

\* C11: checked build: a thread whose lock(), write() or read() panicked
\* does nothing but drop its guards, one guard per step and each guard once,
\* every drop leaving flag and word matching the guards still live; it ends
\* unwinding only with no guard left, and a panicked thread holds none.
C11_UnwindingReleasesGuards ==
    /\ [](\A t \in Threads : pc[t] = "panicked" => NHeld(t) = 0)
    /\ [][ \A t \in Threads : (checked /\ pc[t] = "unwind" /\ last'.t = t) =>
              IF NHeld(t) > 0
                 THEN /\ \E k \in GuardKinds : held' = [held EXCEPT ![t][k] = @ - 1]
                      /\ pc'[t] = "unwind"
                      /\ StateMatchesGuards'
                 ELSE /\ pc'[t] = "panicked"
                      /\ held' = held
                      /\ m_state' = m_state /\ rw_state' = rw_state
       ]_vars

\* an unwinding thread has just dropped its last guard, a write guard, so
\* the writer bit is clear again while another thread still holds the mutex
C11_Witness ==
    /\ checked
    /\ last.op = "RwLockWriteGuard_drop"
    /\ pc[last.t] = "unwind"
    /\ NHeld(last.t) = 0
    /\ rw_state = 0
    /\ m_state
    /\ \E u \in Threads \ {last.t} : held[u]["MutexGuard"] = 1

InCall(t) == pc[t] \in {"load", "cas"}
SingleStepOps ==
    {"lock", "try_lock", "write", "try_write",
     "MutexGuard_drop", "RwLockWriteGuard_drop", "RwLockReadGuard_drop"}

\* C12: finitely many calls per thread, every running thread scheduled: a
\* read or try_read that is in lock_shared leaves it (guard, None or panic),
\* and an unwinding thread finishes; lock, try_lock, write, try_write and the
\* three drops begin and end in one step; a thread inside a call always has a
\* step of its own to take, whatever the other threads hold or do.
C12_NoBlockingNoDeadlock ==
    /\ \A t \in Threads : InCall(t) ~> ~InCall(t)
    /\ \A t \in Threads : (pc[t] = "unwind") ~> (pc[t] = "panicked")
    /\ [][ last'.op \in SingleStepOps =>
              /\ pc[last'.t] \in {"idle", "unwind"}
              /\ pc'[last'.t] \in {"idle", "unwind"} ]_vars
    /\ [](\A t \in Threads : InCall(t) => ENABLED <<Running(t)>>_vars)

\* a reader whose compare_exchange just failed is back at the load while a
\* writer holds the lock and no thread has a call left to make
C12_Witness ==
    /\ last.res = "retry"
    /\ pc[last.t] = "load"
    /\ HasWriterBit(rw_state)
    /\ calls = 0

\* C13: RwLock, checked build: the word is WRITER_BIT times the number of
\* live write guards (0 or 1) plus ONE_READER times the number of live read
\* guards; so it is 0, WRITER_BIT or a positive multiple of ONE_READER, and
\* never has the writer bit set together with a reader count.
C13_WordEncodesGuards ==
    checked =>
        /\ Live("RwLockWriteGuard") \in {0, 1}
        /\ rw_state = WRITER_BIT * Live("RwLockWriteGuard")
                         + ONE_READER * Live("RwLockReadGuard")
        /\ \/ rw_state = 0
           \/ rw_state = WRITER_BIT
           \/ rw_state >= ONE_READER /\ rw_state % ONE_READER = 0
        /\ ~(HasWriterBit(rw_state) /\ rw_state \div ONE_READER > 0)

\* a read guard was dropped and two read guards remain: the word is 2 * ONE_READER
C13_Witness ==
    /\ checked
    /\ last.op = "RwLockReadGuard_drop"
    /\ Live("RwLockReadGuard") = 2
    /\ rw_state = 2 * ONE_READER

\* C14: checked build: try_write and write are one step, one compare-and-set
\* from 0 to WRITER_BIT and no second attempt: the guard is returned exactly
\* when the word is 0 at that step, else the word is left alone and try_write
\* gives None (write panics), with a write guard live and with only read
\* guards live alike; try_lock returns a guard exactly when the flag is clear
\* at its one compare-and-set.
C14_ExclusiveIsOneCompareAndSet ==
    [][ checked =>
            /\ last'.op \in ExclusiveOps =>
                  /\ pc[last'.t] = "idle"
                  /\ pc'[last'.t] \in {"idle", "unwind"}
                  /\ (last'.res = "guard") <=> (rw_state = 0)
                  /\ rw_state' = IF rw_state = 0 THEN WRITER_BIT ELSE rw_state
                  /\ rw_state # 0 =>
                        last'.res = (IF last'.op = "write" THEN "panic_locked" ELSE "None")
            /\ last'.op = "try_lock" =>
                  /\ pc[last'.t] = "idle" /\ pc'[last'.t] = "idle"
                  /\ (last'.res = "guard") <=> ~m_state
                  /\ m_state'
                  /\ m_state => last'.res = "None"
      ]_vars

\* try_write returned None with no write guard live, only read guards
C14_Witness ==
    /\ checked
    /\ last.op = "try_write"
    /\ last.res = "None"
    /\ Live("RwLockWriteGuard") = 0
    /\ Live("RwLockReadGuard") > 0
    /\ ~HasWriterBit(rw_state)

AllGuards == Live("MutexGuard") + Live("RwLockWriteGuard") + Live("RwLockReadGuard")
RaceOver == calls = 0 /\ \A t \in Threads : pc[t] \notin {"load", "cas"}

\* C15: checked build: two threads race for one unlocked cell, try_write
\* against try_read, try_write against try_write or try_lock against
\* try_lock (or their panicking forms), and no guard is dropped: at no point
\* of any interleaving are there two guards, and when both calls have
\* returned there is exactly one.
C15_RaceHasOneWinner ==
    /\ AllGuards <= 1
    /\ RaceOver => AllGuards = 1

\* the race is over: the try_read that returned last got None, the writer
\* holds the only guard
C15_Witness ==
    /\ RaceOver
    /\ last.op = "try_read"
    /\ last.res = "None"
    /\ Live("RwLockWriteGuard") = 1
    /\ Live("RwLockReadGuard") = 0

\* C16: checked build: every drop of a MutexGuard finds the flag true, and
\* every drop of an RwLockWriteGuard finds the word exactly WRITER_BIT: the
\* compare-and-set of unlock_exclusive succeeds, the lock is unlocked after
\* the drop, and the drop is the one release of the one guard it consumes.
C16_ExclusiveReleaseFindsLockHeld ==
    [][ checked =>
            /\ last'.op = "MutexGuard_drop" =>
                  /\ m_state
                  /\ last'.res = "ok"
                  /\ ~m_state'
                  /\ held' = [held EXCEPT ![last'.t]["MutexGuard"] = @ - 1]
                  /\ NoneLiveIn(held', "MutexGuard")
            /\ last'.op = "RwLockWriteGuard_drop" =>
                  /\ rw_state = WRITER_BIT
                  /\ last'.res = "ok"
                  /\ rw_state' = 0
                  /\ held' = [held EXCEPT ![last'.t]["RwLockWriteGuard"] = @ - 1]
                  /\ NoneLiveIn(held', "RwLockWriteGuard")
      ]_vars

\* a write guard was just dropped by a thread that goes on: the release
\* succeeded and the word is 0
C16_Witness ==
    /\ checked
    /\ last.op = "RwLockWriteGuard_drop"
    /\ last.res = "ok"
    /\ pc[last.t] = "idle"
    /\ rw_state = 0
    /\ Live("RwLockWriteGuard") = 0

\* C17: RwLock, checked build: every drop of an RwLockReadGuard finds the
\* word at least ONE_READER with the writer bit clear; the fetch_sub gives
\* the word less ONE_READER with no wrap-around, and the writer bit is clear
\* after it as before.
C17_SharedReleaseNeverUnderflows ==
    [][ (checked /\ last'.op = "RwLockReadGuard_drop") =>
            /\ rw_state >= ONE_READER
            /\ ~HasWriterBit(rw_state)
            /\ rw_state' = rw_state - ONE_READER
            /\ rw_state' >= 0
            /\ ~HasWriterBit(rw_state')
      ]_vars

\* the only read guard was dropped while its thread unwinds: the word went
\* from ONE_READER to 0
C17_Witness ==
    /\ checked
    /\ last.op = "RwLockReadGuard_drop"
    /\ pc[last.t] = "unwind"
    /\ rw_state = 0
    /\ nshared = "one"

\* C18: RwLock, checked build: lock_shared goes round again only after a
\* compare_exchange that found the word different from the one this thread
\* loaded, which only a step of another thread can have made; a call whose
\* load is followed at once by its own compare_exchange ends there, in its
\* first iteration when no other thread stepped during the call; and when a
\* call begins its n-th iteration, other threads have changed the word at
\* least n - 1 times during the call.
C18_RetryNeedsInterference ==
    [][ \A t \in Threads : (checked /\ last'.t = t /\ last'.op \in SharedOps) =>
            /\ last'.res = "retry" =>
                  /\ pc[t] = "cas"
                  /\ rw_state # local[t]
                  /\ loops[t].c >= 1
            /\ (pc[t] = "cas" /\ last.t = t /\ last.res = "loaded") =>
                  /\ last'.res # "retry"
                  /\ loops[t].c = 0 => loops[t].n = 1
            /\ pc[t] \in {"idle", "load"} =>
                  loops[t].n + 1 <= 1 + loops[t].c
            /\ pc'[t] \in {"load", "cas"} => loops'[t].n <= 1 + loops'[t].c
      ]_vars

\* a reader is in its second iteration: its first compare_exchange failed
\* after one change of the word by another thread
C18_Witness ==
    \E t \in Threads :
        /\ pc[t] = "cas"
        /\ loops[t].n = 2
        /\ loops[t].c = 1

\* thread t holds the only guard of the cell of guard kind k
SoleHolder(t, k) ==
    /\ held[t][k] = 1
    /\ \A u \in Threads : \A j \in GuardKinds :
          (GuardLock(j) = GuardLock(k) /\ (u # t \/ j # k)) => held[u][j] = 0

\* C19: checked build: a read through a guard returns the value the cell
\* holds, and a cell's value changes only by a store through a MutexGuard
\* (RwLockWriteGuard) whose thread is then the only holder of a guard of that
\* cell; so the value read is the initial one or the last one so stored, it
\* does not change while a read guard is live, and across drops and
\* acquisitions it stays what the previous holder left.
C19_ValueIsLastWritten ==
    [][ checked =>
            /\ last'.op = "deref" =>
                  /\ held[last'.t][last'.g] > 0
                  /\ last'.val = Deref(last'.g)
                  /\ m_value' = m_value /\ rw_value' = rw_value
            /\ m_value' # m_value =>
                  /\ last'.op = "deref_mut" /\ last'.g = "MutexGuard"
                  /\ SoleHolder(last'.t, "MutexGuard")
            /\ rw_value' # rw_value =>
                  /\ last'.op = "deref_mut" /\ last'.g = "RwLockWriteGuard"
                  /\ SoleHolder(last'.t, "RwLockWriteGuard")
            /\ Live("RwLockReadGuard") > 0 => rw_value' = rw_value
            /\ last'.op \in AcquireOps \cup SingleStepOps =>
                  m_value' = m_value /\ rw_value' = rw_value
      ]_vars

ReleaseOps == {"MutexGuard_drop", "RwLockWriteGuard_drop", "RwLockReadGuard_drop"}

\* C20: checked build: every acquisition that succeeds is an acquire
\* operation and every release of a guard a release operation, so that the
\* thread that acquires a cell does so after every store the earlier holders
\* made to its value has been published: none is left unpublished.
C20_AcquireThenRelease ==
    [][ checked =>
            /\ (last'.op \in AcquireOps /\ last'.res = "guard") =>
                  /\ IsAcquire(AcquireOrdering(OpGuard(last'.op)))
                  /\ dirty[GuardLock(OpGuard(last'.op))] \in {0, last'.t}
            /\ last'.op \in ReleaseOps =>
                  \A k \in GuardKinds :
                      held'[last'.t][k] < held[last'.t][k] =>
                          /\ IsRelease(ReleaseOrdering(k))
                          /\ \A c \in Cells : dirty'[c] # last'.t
      ]_vars
====
